---- MODULE Spec2Model ----
(***************************************************************************)
(* A model of restic-PyBM.py: the wrapper that runs one restic action on   *)
(* one or all configured repositories and reduces the result to a          *)
(* Nagios-style exit status.                                               *)
(*                                                                         *)
(* Reading of the source.  The file as committed has an unbalanced ")" on  *)
(* line 295 and writes the environment with os.environ.set(k, v), a method *)
(* os.environ does not have.  The model follows the statements by their    *)
(* evident meaning: line 295 is the assignment it spells, and              *)
(* os.environ.set(k, v) is os.environ[k] = v (so a non-string value raises *)
(* TypeError).  Everything else is taken as written: an exception no       *)
(* handler catches ends the interpreter with a traceback and status 1.     *)
(*                                                                         *)
(* Repository names are the numbers 1..n in their declared order; a name   *)
(* outside 1..n is absent from the configuration.  Time is in seconds.     *)
(***************************************************************************)
EXTENDS Integers, Sequences, FiniteSets, TLC

VARIABLES
  args,                      \* parsed command line (lines 31-67, 140)
  repos,                     \* configValues['repos'], in declared order
  pc,                        \* position of the script
  reposToProcess,            \* line 157
  idx,                       \* position of the for loop of line 181
  env,                       \* os.environ, the four variables the script writes
  resticRepository,          \* restic.repository
  duplicateSource,           \* line 196 (a module-level name: it outlives the iteration)
  successMessageAccumulated, \* line 174
  errorMessageAccumulated,   \* line 175
  scriptReturnValue,         \* line 178
  exitStatus,                \* status the process ended with, NotExited before
  printed,                   \* the status line printed on exit
  crash,                     \* the uncaught exception, "none" if there is none
  calls,                     \* history: the credential reads and engine calls of the
                             \* current loop iteration (before the loop: of the prologue)
  unlockCount,               \* history: per loop position, the unlock calls made for it
  unlockFailed,              \* history: some unlock call has failed
  worstOutcome               \* history: the worst Outcome among the finished iterations

vars == <<args, repos, pc, reposToProcess, idx, env, resticRepository,
          duplicateSource, successMessageAccumulated, errorMessageAccumulated,
          scriptReturnValue, exitStatus, printed, crash, calls, unlockCount,
          unlockFailed, worstOutcome>>

\* ---- bounds -----------------------------------------------------------------

MaxRepos == 3     \* repositories in the configuration
MaxSpecial == 2   \* of which b2: or duplicate repositories
MaxSnaps == 2     \* snapshots the engine lists for a repository

\* ---- values -----------------------------------------------------------------

ALL_REPOS == 0
NoDuplicate == 0
NotExited == 0 - 1
Day == 86400
Now == 100 * Day + 30

Absent == MaxRepos + 1

Location(scheme, name) == [scheme |-> scheme, id |-> name]
NoLocation == [scheme |-> "none", id |-> 0]
IsB2(location) == location.scheme = "b2:"
Password(name) == <<"password", name>>
KeyID(name) == <<"keyID", name>>
ApplicationKey(name) == <<"applicationKey", name>>
Unset == <<"unset", 0>>

RepoNames == 1 .. Len(repos)

EmptyEnv ==
  [RESTIC_PASSWORD |-> Unset, RESTIC_PASSWORD2 |-> Unset,
   B2_ACCOUNT_ID |-> Unset, B2_ACCOUNT_KEY |-> Unset]

Actions == {"run", "create", "list", "prune", "check"}

\* ---- configuration ----------------------------------------------------------

\* What the secret store holds for a repository (read_secret_version's data.data).
VaultData(name) ==
  [keyID |-> KeyID(name), applicationKey |-> ApplicationKey(name),
   password |-> Password(name)]

\* A credential as get_repo_password returns it: a scalar, or a mapping.
Scalar(v) == [scalar |-> TRUE, value |-> v, data |-> VaultData(0)]
Mapping(d) == [scalar |-> FALSE, value |-> Unset, data |-> d]

\* The 'key' entry of a repository: with --use-vault it locates the secret (path and
\* mountpoint); without, it is the credential itself (for a b2: location the mapping
\* that lines 188-190 index).
ConfigKey(name, b2, vault) ==
  IF vault THEN [path |-> name, inline |-> Mapping(VaultData(0))]
  ELSE IF b2 THEN [path |-> 0, inline |-> Mapping(VaultData(name))]
  ELSE [path |-> 0, inline |-> Scalar(Password(name))]

RepoKinds == {"standard", "b2", "duplicate", "duplicateOfAbsent"}

\* One entry of configValues['repos'].  duplicate = NoDuplicate stands for an entry
\* without the 'duplicate' key.  A duplicate names the first repository as its source.
RepoConfig(name, kind, vault) ==
  [location |-> Location(IF kind = "b2" THEN "b2:" ELSE "sftp:", name),
   key |-> ConfigKey(name, kind = "b2", vault),
   duplicate |-> CASE kind = "duplicate" -> 1
                   [] kind = "duplicateOfAbsent" -> Absent
                   [] OTHER -> NoDuplicate,
   max_age |-> 30,
   min_age |-> 7]

KindsOf(name) == IF name = 1 THEN RepoKinds \ {"duplicate"} ELSE RepoKinds

Configs(vault) ==
  UNION { { [i \in 1 .. n |-> RepoConfig(i, kinds[i], vault)] :
              kinds \in { k \in [1 .. n -> RepoKinds] :
                           /\ \A i \in 1 .. n : k[i] \in KindsOf(i)
                           /\ Cardinality({i \in 1 .. n : k[i] # "standard"})
                                <= MaxSpecial } } :
          n \in 0 .. MaxRepos }

ArgSets ==
  [action : Actions, repo : {ALL_REPOS} \cup (1 .. MaxRepos + 1),
   age : BOOLEAN, selfUpdate : BOOLEAN, vault : BOOLEAN]

\* ---- pure functions ---------------------------------------------------------

\* get_repo_password taking the password field of the secret whatever the location.
get_repo_password_PasswordOnly(rs, currentRepo, vault) ==
  IF vault
    THEN Scalar(VaultData(rs[currentRepo].key.path).password)
    ELSE rs[currentRepo].key.inline

get_repo_password(rs, currentRepo, vault) ==
  IF vault
    THEN IF IsB2(rs[currentRepo].location)
           THEN Mapping(VaultData(rs[currentRepo].key.path))
           ELSE Scalar(VaultData(rs[currentRepo].key.path).password)
    ELSE rs[currentRepo].key.inline

\* datetime.strptime(t[0:18], '%Y-%m-%dT%H:%M:%S'): the slice keeps 18 characters,
\* so only the tens digit of the seconds is left and %S reads it as the seconds.
ParseTime18(t) == (t \div 60) * 60 + ((t % 60) \div 10)

timedelta(days) == days * Day

\* ---- the engine, as the script sees it ---------------------------------------

SnapshotTimes == {Now - 40 * Day, Now - 10 * Day, Now - 7 * Day + 20, Now - Day}

\* One host group of restic.snapshots(group_by='host'): its snapshots' times, oldest
\* first and no two alike.
SnapshotGroups ==
  { g \in UNION { [1 .. n -> SnapshotTimes] : n \in 1 .. MaxSnaps } :
      \A i \in 1 .. Len(g) - 1 : g[i] < g[i + 1] }

\* What restic.snapshots returns: no group at all, or the group of this host.
SnapshotLists == {<<>>} \cup { <<g>> : g \in SnapshotGroups }

Raises == {"ok", "raise"}

\* One entry of the history: a credential read or an engine call, with the loop
\* position and repository it was made for, the repository and environment the
\* engine ran against, and in data what came back (the credential of a read, the
\* list of restic.snapshots).
Event(op, pos, repo, repository, e, result, data) ==
  [op |-> op, pos |-> pos, repo |-> repo, repository |-> repository, env |-> e,
   result |-> result, data |-> data]

Fragment(text, repo) == [text |-> text, repo |-> repo]

\* ---- credential environment setup, lines 183-206 ------------------------------

\* CredentialSetup with the inversion of lines 203-206 made for every action.
CredentialSetupInvertingAlways(currentRepo, e, dupSrc, ok1, ok2) ==
  LET r == repos[currentRepo]
      cred == get_repo_password(repos, currentRepo, args.vault)
      read1 == Event("resolve", idx, currentRepo, resticRepository, e,
                     IF ok1 THEN "ok" ELSE "raise", IF ok1 THEN <<cred>> ELSE <<>>)
      env1 == IF IsB2(r.location)
                THEN [e EXCEPT !.B2_ACCOUNT_ID = cred.data.keyID,
                               !.B2_ACCOUNT_KEY = cred.data.applicationKey,
                               !.RESTIC_PASSWORD = cred.data.password]
                ELSE [e EXCEPT !.RESTIC_PASSWORD = cred.value]
      src == r.duplicate
      cred2 == get_repo_password(repos, src, args.vault)
      read2 == Event("resolve", idx, src, resticRepository, env1,
                     IF ok2 THEN "ok" ELSE "raise", IF ok2 THEN <<cred2>> ELSE <<>>)
      env2 == [env1 EXCEPT !.RESTIC_PASSWORD2 = cred2.value]
      env3 == [env2 EXCEPT !.RESTIC_PASSWORD2 = env2.RESTIC_PASSWORD,
                           !.RESTIC_PASSWORD = env2.RESTIC_PASSWORD2]
  IN  IF ~ok1
        THEN [exc |-> "VaultError", env |-> e, duplicateSource |-> dupSrc,
              events |-> <<read1>>]
      ELSE IF IsB2(r.location) = cred.scalar
        THEN [exc |-> "TypeError", env |-> e, duplicateSource |-> dupSrc,
              events |-> <<read1>>]
      ELSE IF src = NoDuplicate
        THEN [exc |-> "none", env |-> env1, duplicateSource |-> dupSrc,
              events |-> <<read1>>]
      ELSE IF src \notin RepoNames
        THEN [exc |-> "KeyError", env |-> env1, duplicateSource |-> src,
              events |-> <<read1>>]
      ELSE IF ~ok2
        THEN [exc |-> "VaultError", env |-> env1, duplicateSource |-> src,
              events |-> <<read1, read2>>]
      ELSE IF ~cred2.scalar
        THEN [exc |-> "TypeError", env |-> env1, duplicateSource |-> src,
              events |-> <<read1, read2>>]
      ELSE [exc |-> "none", env |-> env3, duplicateSource |-> src,
            events |-> <<read1, read2>>]

\* The outcome of lines 184-206 for currentRepo: the exception that escapes ("none" if
\* none), the environment and duplicateSource as left, and the reads made.  ok1 and
\* ok2: whether the secret store answers the first and the second read.
CredentialSetup(currentRepo, e, dupSrc, ok1, ok2) ==
  LET r == repos[currentRepo]
      cred == get_repo_password(repos, currentRepo, args.vault)
      read1 == Event("resolve", idx, currentRepo, resticRepository, e,
                     IF ok1 THEN "ok" ELSE "raise", IF ok1 THEN <<cred>> ELSE <<>>)
      env1 == IF IsB2(r.location)
                THEN [e EXCEPT !.B2_ACCOUNT_ID = cred.data.keyID,
                               !.B2_ACCOUNT_KEY = cred.data.applicationKey,
                               !.RESTIC_PASSWORD = cred.data.password]
                ELSE [e EXCEPT !.RESTIC_PASSWORD = cred.value]
      src == r.duplicate
      cred2 == get_repo_password(repos, src, args.vault)
      read2 == Event("resolve", idx, src, resticRepository, env1,
                     IF ok2 THEN "ok" ELSE "raise", IF ok2 THEN <<cred2>> ELSE <<>>)
      env2 == [env1 EXCEPT !.RESTIC_PASSWORD2 = cred2.value]
      env3 == IF args.action = "run"
                THEN [env2 EXCEPT !.RESTIC_PASSWORD2 = env2.RESTIC_PASSWORD,
                                  !.RESTIC_PASSWORD = env2.RESTIC_PASSWORD2]
                ELSE env2
  IN  IF ~ok1
        THEN [exc |-> "VaultError", env |-> e, duplicateSource |-> dupSrc,
              events |-> <<read1>>]
      ELSE IF IsB2(r.location) = cred.scalar
        THEN [exc |-> "TypeError", env |-> e, duplicateSource |-> dupSrc,
              events |-> <<read1>>]
      ELSE IF src = NoDuplicate
        THEN [exc |-> "none", env |-> env1, duplicateSource |-> dupSrc,
              events |-> <<read1>>]
      ELSE IF src \notin RepoNames
        THEN [exc |-> "KeyError", env |-> env1, duplicateSource |-> src,
              events |-> <<read1>>]
      ELSE IF ~ok2
        THEN [exc |-> "VaultError", env |-> env1, duplicateSource |-> src,
              events |-> <<read1, read2>>]
      ELSE IF ~cred2.scalar
        THEN [exc |-> "TypeError", env |-> env1, duplicateSource |-> src,
              events |-> <<read1, read2>>]
      ELSE [exc |-> "none", env |-> env3, duplicateSource |-> src,
            events |-> <<read1, read2>>]

\* ---- actions execution, lines 212-311 ----------------------------------------

Outcome(exc, e, repository, events, successMessage, errorMessage) ==
  [exc |-> exc, env |-> e, repository |-> repository, events |-> events,
   successMessage |-> successMessage, errorMessage |-> errorMessage]

\* Lines 292-311, the final else of the dispatch: copy for a duplicate, backup otherwise.
\* before: the engine calls this iteration has already made.
RunBranch(currentRepo, before, result) ==
  LET own == repos[currentRepo].location
      source == repos[duplicateSource].location
      ok == "Snapshot successfully created on repository"
      err == "Error creating new snapshot on repository"
  IN  IF repos[currentRepo].duplicate # NoDuplicate
        THEN LET call == Event("copy", idx, currentRepo, source, env, result, <<>>)
             IN  IF result = "raise"
                   THEN Outcome("ResticError", env, source, Append(before, call), "", "")
                   ELSE Outcome("none",
                                [env EXCEPT !.RESTIC_PASSWORD = env.RESTIC_PASSWORD2],
                                source, Append(before, call), ok, err)
        ELSE LET call == Event("backup", idx, currentRepo, own, env, result, <<>>)
             IN  IF result = "raise"
                   THEN Outcome("ResticError", env, own, Append(before, call), "", "")
                   ELSE Outcome("none", env, own, Append(before, call), ok, err)

\* Lines 214-227 and then, since the test of line 229 opens a new if statement whose
\* final else is the run branch, lines 292-311 as well.
CreateAction(currentRepo, initResult, runResult) ==
  LET own == repos[currentRepo].location
      call == Event("init", idx, currentRepo, own, env, initResult, <<>>)
  IN  IF initResult = "raise"
        THEN Outcome("ResticError", env, own, <<call>>, "", "")
        ELSE RunBranch(currentRepo, <<call>>, runResult)

\* Lines 229-236.
PruneAction(currentRepo, result) ==
  LET own == repos[currentRepo].location
      call == Event("forget", idx, currentRepo, own, env, result, <<>>)
  IN  IF result = "raise"
        THEN Outcome("ResticError", env, own, <<call>>, "", "")
        ELSE Outcome("none", env, own, <<call>>,
                     "clean up successful", "Error cleaning up repository")

\* Lines 253-276: the age comparison on the list restic.snapshots returned.  The else
\* of line 273 belongs to the if of line 270 and reads the name result, which nothing
\* defines.
AgeComparison(currentRepo, snaps) ==
  IF Len(snaps) = 0
    THEN [exc |-> "IndexError", errorMessage |-> ""]
    ELSE LET group == snaps[1]
             oldestTime == ParseTime18(group[1])
             newestTime == ParseTime18(group[Len(group)])
             oldDiff == Now - oldestTime
             newDiff == Now - newestTime
             afterOldest == IF oldDiff > timedelta(repos[currentRepo].max_age)
                              THEN "Oldest snapshot is old"
                              ELSE ""
         IN  IF newDiff > timedelta(repos[currentRepo].min_age)
               THEN [exc |-> "none", errorMessage |-> "Newest snapshot is old"]
               ELSE [exc |-> "NameError", errorMessage |-> afterOldest]

\* CheckAction with the age check of lines 248-278 outside the else of line 246.
CheckActionListingAnyway(currentRepo, checkResult, snapshots) ==
  LET own == repos[currentRepo].location
      call == Event("check", idx, currentRepo, own, env, checkResult, <<>>)
      list == Event("snapshots", idx, currentRepo, own, env, snapshots.result,
                    snapshots.data)
      age == AgeComparison(currentRepo, snapshots.data)
      healthy == "is healthy"
  IN  IF checkResult = "raise"
        THEN Outcome("ResticError", env, own, <<call>>, "", "")
      ELSE IF ~args.age
        THEN Outcome("none", env, own, <<call>>, healthy,
                     IF checkResult = "falsy" THEN "Error checking repository" ELSE "")
      ELSE IF FALSE
        THEN Outcome("none", env, own, <<call>>, healthy, "")
      ELSE IF snapshots.result = "raise"
        THEN Outcome("none", env, own, <<call, list>>, healthy, "Error getting snapshots")
      ELSE Outcome(age.exc, env, own, <<call, list>>, healthy, age.errorMessage)

\* Lines 238-283.  checkResult: restic.check returned a true value ("ok"), a false one
\* ("falsy"), or raised.  snapshots: what restic.snapshots does if it is called.
CheckAction(currentRepo, checkResult, snapshots) ==
  LET own == repos[currentRepo].location
      call == Event("check", idx, currentRepo, own, env, checkResult, <<>>)
      list == Event("snapshots", idx, currentRepo, own, env, snapshots.result,
                    snapshots.data)
      age == AgeComparison(currentRepo, snapshots.data)
      healthy == "is healthy"
  IN  IF checkResult = "raise"
        THEN Outcome("ResticError", env, own, <<call>>, "", "")
      ELSE IF checkResult = "falsy"
        THEN Outcome("none", env, own, <<call>>, healthy, "Error checking repository")
      ELSE IF ~args.age
        THEN Outcome("none", env, own, <<call>>, healthy, "")
      ELSE IF snapshots.result = "raise"
        THEN Outcome("none", env, own, <<call, list>>, healthy, "Error getting snapshots")
      ELSE Outcome(age.exc, env, own, <<call, list>>, healthy, age.errorMessage)

\* Lines 285-290.
ListAction(currentRepo, result) ==
  LET own == repos[currentRepo].location
      call == Event("snapshots", idx, currentRepo, own, env, result, <<>>)
  IN  IF result = "raise"
        THEN Outcome("ResticError", env, own, <<call>>, "", "")
        ELSE Outcome("none", env, own, <<call>>,
                     "Snapshot list retreived", "Error listing snapshots on repository")

\* ---- the Outcome of a repository, as the specification defines it ------------

Max(a, b) == IF a >= b THEN a ELSE b

OK == 0
WARNING == 1
CRITICAL == 2

\* AgeEvaluator: CRITICAL when there is no snapshot, when the oldest one is older than
\* max_age days or when the newest one is older than min_age days.
AgeEvaluator(snaps, max_age, min_age) ==
  IF Len(snaps) = 0 THEN CRITICAL
  ELSE IF Now - snaps[1][1] > max_age * Day THEN CRITICAL
  ELSE IF Now - snaps[1][Len(snaps[1])] > min_age * Day THEN CRITICAL
  ELSE OK

\* The severity of one repository's Outcome, from what happened in its iteration:
\* CRITICAL for a failed credential read, a failed engine call of the primary action
\* or a failed age check, WARNING for a failed unlock alone, OK otherwise.
OutcomeSeverity(repo, events) ==
  IF \E k \in 1 .. Len(events) :
       \/ events[k].op # "unlock" /\ events[k].result # "ok"
       \/ /\ events[k].op = "snapshots" /\ args.action = "check"
          /\ AgeEvaluator(events[k].data, repos[repo].max_age, repos[repo].min_age)
               = CRITICAL
    THEN CRITICAL
  ELSE IF \E k \in 1 .. Len(events) : events[k].op = "unlock" /\ events[k].result # "ok"
    THEN WARNING
  ELSE OK

\* args.quiet and args.verbose are read by end_script only (lines 329-330); the
\* record of what was printed holds them from then on, and Unread on every other path.
Unread == "unread"
NothingPrinted ==
  [prefix |-> "", message |-> <<>>, details |-> <<>>, quiet |-> Unread,
   verbose |-> Unread]

\* ---- the script ----------------------------------------------------------------

Init ==
  /\ args \in ArgSets
  /\ repos \in Configs(args.vault)
  /\ pc = "check_repo"
  /\ reposToProcess = <<>>
  /\ idx = 0
  /\ env = EmptyEnv
  /\ resticRepository = NoLocation
  /\ duplicateSource = NoDuplicate
  /\ successMessageAccumulated = <<>>
  /\ errorMessageAccumulated = <<>>
  /\ scriptReturnValue = 0
  /\ exitStatus = NotExited
  /\ printed = NothingPrinted
  /\ crash = "none"
  /\ calls = <<>>
  /\ unlockCount = <<>>
  /\ unlockFailed = FALSE
  /\ worstOutcome = 0

\* end_script printing the CRITICAL line under "if not quiet" as the other two.
end_script_QuietEverywhere(returnCode, successMsg, errorMsg, quiet, verbose) ==
  LET prefix == IF returnCode = 2 THEN "CRITICAL"
                ELSE IF returnCode = 1 THEN "WARNING" ELSE "OK"
      status == IF returnCode \in {1, 2} THEN returnCode ELSE 0
  IN  [status |-> status,
       prefix |-> IF quiet THEN "" ELSE prefix,
       message |-> IF quiet THEN <<>>
                   ELSE IF status = 0 THEN successMsg ELSE errorMsg,
       details |-> IF ~verbose THEN <<>>
                   ELSE IF status = 0 THEN <<"separator", "stdOut">>
                   ELSE <<"Output", "Error">>]

\* end_script, lines 110-133: the exit status, the status line (prefix and message,
\* both empty when the line is not printed) and the lines after it. stdOut and stdErr
\* are the empty strings of lines 174-175 on every call.
end_script(returnCode, successMsg, errorMsg, quiet, verbose) ==
  IF returnCode = 2
    THEN [status |-> 2, prefix |-> "CRITICAL", message |-> errorMsg,
          details |-> <<"Output", "Error">>]
    ELSE IF returnCode = 1
      THEN [status |-> 1,
            prefix |-> IF ~quiet THEN "WARNING" ELSE "",
            message |-> IF ~quiet THEN errorMsg ELSE <<>>,
            details |-> IF verbose THEN <<"Output", "Error">> ELSE <<>>]
      ELSE [status |-> 0,
            prefix |-> IF ~quiet THEN "OK" ELSE "",
            message |-> IF ~quiet THEN successMsg ELSE <<>>,
            details |-> IF verbose THEN <<"separator", "stdOut">> ELSE <<>>]

\* exit(status) after printing a line that no flag governs (lines 145-146, 153-154).
Exit(status, prefix, message) ==
  /\ pc' = "exited"
  /\ exitStatus' = status
  /\ printed' = [NothingPrinted EXCEPT !.prefix = prefix, !.message = message]
  /\ crash' = "none"

\* An exception nothing catches: the interpreter prints the traceback and ends with 1.
Uncaught(exc) ==
  /\ pc' = "crashed"
  /\ exitStatus' = 1
  /\ printed' = [NothingPrinted EXCEPT !.prefix = "Traceback"]
  /\ crash' = exc

Continue(next) ==
  /\ pc' = next
  /\ UNCHANGED <<exitStatus, printed, crash>>

\* CheckRepoExists with "and" on line 144 taken for "or" of the negations: exit only
\* for a name that is a key of repos and is not ALL_REPOS.
CheckRepoExistsInverted ==
  /\ pc = "check_repo"
  /\ IF args.repo \in RepoNames /\ args.repo # ALL_REPOS
       THEN Exit(2, "Repository absent", <<>>)
       ELSE Continue("self_update")
  /\ UNCHANGED <<args, repos, reposToProcess, idx, env, resticRepository,
                 duplicateSource, successMessageAccumulated,
                 errorMessageAccumulated, scriptReturnValue, calls, unlockCount,
                 unlockFailed, worstOutcome>>

\* Lines 143-146.
CheckRepoExists ==
  /\ pc = "check_repo"
  /\ IF args.repo \notin RepoNames /\ args.repo # ALL_REPOS
       THEN Exit(2, "Repository absent", <<>>)
       ELSE Continue("self_update")
  /\ UNCHANGED <<args, repos, reposToProcess, idx, env, resticRepository,
                 duplicateSource, successMessageAccumulated,
                 errorMessageAccumulated, scriptReturnValue, calls, unlockCount,
                 unlockFailed, worstOutcome>>

\* SelfUpdate with a handler that prints and goes on instead of exiting.
SelfUpdateGoingOn ==
  /\ pc = "self_update"
  /\ IF args.selfUpdate
       THEN \E result \in Raises :
              /\ calls' = <<Event("self_update", 0, 0, resticRepository, env,
                                   result, <<>>)>>
              /\ Continue("build")
       ELSE /\ Continue("build")
            /\ UNCHANGED calls
  /\ UNCHANGED <<args, repos, reposToProcess, idx, env, resticRepository,
                 duplicateSource, successMessageAccumulated,
                 errorMessageAccumulated, scriptReturnValue, unlockCount,
                 unlockFailed, worstOutcome>>

\* Lines 148-154.
SelfUpdate ==
  /\ pc = "self_update"
  /\ IF args.selfUpdate
       THEN \E result \in Raises :
              /\ calls' = <<Event("self_update", 0, 0, resticRepository, env,
                                   result, <<>>)>>
              /\ IF result = "raise"
                   THEN Exit(2, "CRITICAL", <<Fragment("restic self-update failed", 0)>>)
                   ELSE Continue("build")
       ELSE /\ Continue("build")
            /\ UNCHANGED calls
  /\ UNCHANGED <<args, repos, reposToProcess, idx, env, resticRepository,
                 duplicateSource, successMessageAccumulated,
                 errorMessageAccumulated, scriptReturnValue, unlockCount,
                 unlockFailed, worstOutcome>>

\* Lines 156-178: the list of repositories, the secret-store login and the accumulators
\* (which Init already holds at their initial values).
BuildReposToProcess ==
  /\ pc = "build"
  /\ reposToProcess' = IF args.repo = ALL_REPOS
                         THEN [i \in 1 .. Len(repos) |-> i]
                         ELSE <<args.repo>>
  /\ \E login \in (IF args.vault THEN Raises ELSE {"ok"}) :
       IF login = "raise"
         THEN Uncaught("VaultError") /\ idx' = idx
         ELSE IF Len(reposToProcess') = 0
           THEN Continue("end_script") /\ idx' = idx
           ELSE Continue("credentials") /\ idx' = 1
  /\ unlockCount' = [i \in 1 .. Len(reposToProcess') |-> 0]
  /\ UNCHANGED <<args, repos, env, resticRepository, duplicateSource,
                 successMessageAccumulated, errorMessageAccumulated,
                 scriptReturnValue, calls, unlockFailed, worstOutcome>>

\* Lines 183-206 for the repository the loop is at.
ResolveCredentials ==
  /\ pc = "credentials"
  /\ \E ok1, ok2 \in (IF args.vault THEN BOOLEAN ELSE {TRUE}) :
       LET out == CredentialSetup(reposToProcess[idx], env, duplicateSource, ok1, ok2)
       IN  /\ env' = out.env
           /\ duplicateSource' = out.duplicateSource
           /\ calls' = out.events
           /\ IF out.exc = "none" THEN Continue("action") ELSE Uncaught(out.exc)
  /\ UNCHANGED <<args, repos, reposToProcess, idx, resticRepository,
                 successMessageAccumulated, errorMessageAccumulated,
                 scriptReturnValue, unlockCount, unlockFailed, worstOutcome>>

\* Finish with the success text appended only for a repository without error text.
FinishSkippingFailed(out) ==
  /\ env' = out.env
  /\ resticRepository' = out.repository
  /\ calls' = calls \o out.events
  /\ IF out.exc = "none"
       THEN /\ successMessageAccumulated' =
                 IF out.errorMessage = ""
                   THEN Append(successMessageAccumulated,
                               Fragment(out.successMessage, reposToProcess[idx]))
                   ELSE successMessageAccumulated
            /\ errorMessageAccumulated' =
                 Append(errorMessageAccumulated,
                        Fragment(out.errorMessage, reposToProcess[idx]))
            /\ Continue("unlock")
       ELSE /\ UNCHANGED <<successMessageAccumulated, errorMessageAccumulated>>
            /\ Uncaught(out.exc)
  /\ UNCHANGED <<args, repos, reposToProcess, idx, duplicateSource, scriptReturnValue,
                 unlockCount, unlockFailed, worstOutcome>>

\* Finish with the unlock of lines 316-320 outside the for loop: the loop goes on to
\* the next repository and only the last one is unlocked.
FinishUnlockingAfterLoop(out) ==
  /\ env' = out.env
  /\ resticRepository' = out.repository
  /\ calls' = calls \o out.events
  /\ IF out.exc = "none"
       THEN /\ successMessageAccumulated' =
                 Append(successMessageAccumulated,
                        Fragment(out.successMessage, reposToProcess[idx]))
            /\ errorMessageAccumulated' =
                 Append(errorMessageAccumulated,
                        Fragment(out.errorMessage, reposToProcess[idx]))
            /\ IF idx < Len(reposToProcess)
                 THEN Continue("credentials") /\ idx' = idx + 1
                 ELSE Continue("unlock") /\ idx' = idx
       ELSE /\ UNCHANGED <<successMessageAccumulated, errorMessageAccumulated, idx>>
            /\ Uncaught(out.exc)
  /\ UNCHANGED <<args, repos, reposToProcess, duplicateSource, scriptReturnValue,
                 unlockCount, unlockFailed, worstOutcome>>

\* The effect of lines 212-314 once the dispatch has produced out.
Finish(out) ==
  /\ env' = out.env
  /\ resticRepository' = out.repository
  /\ calls' = calls \o out.events
  /\ IF out.exc = "none"
       THEN /\ successMessageAccumulated' =
                 Append(successMessageAccumulated,
                        Fragment(out.successMessage, reposToProcess[idx]))
            /\ errorMessageAccumulated' =
                 Append(errorMessageAccumulated,
                        Fragment(out.errorMessage, reposToProcess[idx]))
            /\ Continue("unlock")
       ELSE /\ UNCHANGED <<successMessageAccumulated, errorMessageAccumulated>>
            /\ Uncaught(out.exc)
  /\ UNCHANGED <<args, repos, reposToProcess, idx, duplicateSource, scriptReturnValue,
                 unlockCount, unlockFailed, worstOutcome>>

Create ==
  /\ pc = "action"
  /\ args.action = "create"
  /\ \E initResult, runResult \in Raises :
       Finish(CreateAction(reposToProcess[idx], initResult, runResult))

Prune ==
  /\ pc = "action"
  /\ args.action = "prune"
  /\ \E result \in Raises : Finish(PruneAction(reposToProcess[idx], result))

Check ==
  /\ pc = "action"
  /\ args.action = "check"
  /\ \E checkResult \in {"ok", "falsy", "raise"} :
       \E snapshots \in {[result |-> "raise", data |-> <<>>]}
                          \cup { [result |-> "ok", data |-> l] : l \in SnapshotLists } :
         Finish(CheckAction(reposToProcess[idx], checkResult, snapshots))

List ==
  /\ pc = "action"
  /\ args.action = "list"
  /\ \E result \in Raises : Finish(ListAction(reposToProcess[idx], result))

Run ==
  /\ pc = "action"
  /\ args.action = "run"
  /\ \E result \in Raises :
       Finish(RunBranch(reposToProcess[idx],  <<>>, result))

\* Lines 316-320, and the step of the for loop.
Unlock ==
  /\ pc = "unlock"
  /\ \E result \in Raises :
       /\ calls' = Append(calls, Event("unlock", idx, reposToProcess[idx],
                                       resticRepository, env, result, <<>>))
       /\ scriptReturnValue' = IF result = "raise" THEN 1 ELSE scriptReturnValue
       /\ unlockFailed' = (unlockFailed \/ result = "raise")
  /\ unlockCount' = [unlockCount EXCEPT ![idx] = @ + 1]
  /\ worstOutcome' = Max(worstOutcome, OutcomeSeverity(reposToProcess[idx], calls'))
  /\ IF idx < Len(reposToProcess)
       THEN Continue("credentials") /\ idx' = idx + 1
       ELSE Continue("end_script") /\ idx' = idx
  /\ UNCHANGED <<args, repos, reposToProcess, env, resticRepository, duplicateSource,
                 successMessageAccumulated, errorMessageAccumulated>>

\* Lines 323-331: end_script on the accumulated result, with args.quiet and
\* args.verbose, which nothing before this call reads.
EndScript ==
  /\ pc = "end_script"
  /\ \E quiet, verbose \in BOOLEAN :
       LET out == end_script(scriptReturnValue, successMessageAccumulated,
                             errorMessageAccumulated, quiet, verbose)
       IN  /\ pc' = "exited"
           /\ exitStatus' = out.status
           /\ printed' = [prefix |-> out.prefix, message |-> out.message,
                          details |-> out.details,
                          quiet |-> quiet, verbose |-> verbose]
           /\ crash' = "none"
  /\ UNCHANGED <<args, repos, reposToProcess, idx, env, resticRepository,
                 duplicateSource, successMessageAccumulated,
                 errorMessageAccumulated, scriptReturnValue, calls, unlockCount,
                 unlockFailed, worstOutcome>>

Next ==
  \/ CheckRepoExists
  \/ SelfUpdate
  \/ BuildReposToProcess
  \/ ResolveCredentials
  \/ Create
  \/ Prune
  \/ Check
  \/ List
  \/ Run
  \/ Unlock
  \/ EndScript

Spec == Init /\ [][Next]_vars

\* end_script on its own, from the call on lines 323-331: every return code it tells
\* apart, and messages of one fragment per repository as lines 313-314 build them.
ReturnCodes == {0, 1, 2}
MessagesOf(n, texts) ==
  {[i \in 1 .. n |-> Fragment(t[i], i)] : t \in [1 .. n -> texts]}

EndScriptInit ==
  /\ args \in {a \in ArgSets : a.repo = ALL_REPOS /\ ~a.selfUpdate /\ ~a.vault}
  /\ repos = <<>>
  /\ pc = "end_script"
  /\ reposToProcess = <<>>
  /\ idx = 0
  /\ env = EmptyEnv
  /\ resticRepository = NoLocation
  /\ duplicateSource = NoDuplicate
  /\ \E n \in 0 .. MaxRepos :
       /\ successMessageAccumulated \in
            MessagesOf(n, {"clean up successful", "Snapshot list retreived"})
       /\ errorMessageAccumulated \in
            MessagesOf(n, {"", "Error checking repository"})
  /\ scriptReturnValue \in ReturnCodes
  /\ exitStatus = NotExited
  /\ printed = NothingPrinted
  /\ crash = "none"
  /\ calls = <<>>
  /\ unlockCount = <<>>
  /\ unlockFailed = FALSE
  /\ worstOutcome = 0

EndScriptSpec == EndScriptInit /\ [][EndScript]_vars

\* ---- what the claims speak of --------------------------------------------------

Ended == pc \in {"exited", "crashed"}

\* The loop ran to its end and end_script produced the exit.
LoopDone == pc = "exited" /\ Len(reposToProcess) > 0 /\ idx = Len(reposToProcess)

PrimaryOps == {"init", "forget", "check", "snapshots", "copy", "backup"}
EngineOps == PrimaryOps \cup {"unlock", "self_update"}

\* The events of the iteration the loop is at.
Current(k) == k \in 1 .. Len(calls) /\ calls[k].pos = idx /\ idx >= 1

PrimaryActionRan == \E k \in 1 .. Len(calls) : Current(k) /\ calls[k].op \in PrimaryOps

\* The age check of the current iteration got a non-empty list from the engine.
Listed(k) ==
  /\ Current(k) /\ args.action = "check" /\ calls[k].op = "snapshots"
  /\ calls[k].result = "ok" /\ Len(calls[k].data) > 0

oldDiff(k) == Now - ParseTime18(calls[k].data[1][1])
newDiff(k) == Now - ParseTime18(calls[k].data[1][Len(calls[k].data[1])])
max_age(k) == timedelta(repos[calls[k].repo].max_age)
min_age(k) == timedelta(repos[calls[k].repo].min_age)

AllUnlockedOnce == \A p \in 1 .. Len(reposToProcess) : unlockCount[p] = 1

\* ---- C1 ---------------------------------------------------------------------------
\* C1: when the loop has run to its end, the exit status is the maximum of the
\* per-repository Outcome severities and is one of 0, 1, 2.
C1_ExitStatusIsMaxSeverity ==
  LoopDone => exitStatus \in {OK, WARNING, CRITICAL} /\ exitStatus = worstOutcome

\* ---- C2 ---------------------------------------------------------------------------
\* C2: once the run has ended, every repository whose primary action was run has had
\* exactly one unlock call, whether the primary action succeeded or failed.
C2_UnlockExactlyOnce ==
  (Ended /\ PrimaryActionRan) => \A p \in 1 .. idx : unlockCount[p] = 1

\* ---- C3 ---------------------------------------------------------------------------
\* C3: once an unlock has failed the run's severity is at least WARNING from then on,
\* it is WARNING and not CRITICAL when no repository's own Outcome is CRITICAL, and
\* when the run ends every repository of the processing order has been processed up
\* to its unlock.
C3_UnlockFailureIsWarningOnly ==
  unlockFailed =>
    /\ scriptReturnValue >= WARNING
    /\ (worstOutcome <= WARNING /\ ~Ended) => scriptReturnValue = WARNING
    /\ Ended => (exitStatus >= WARNING /\ AllUnlockedOnce)

\* ---- C4 ---------------------------------------------------------------------------
\* C4: when a credential read or an engine call of the primary action has failed for
\* a repository, the run still ends through end_script with every repository
\* processed up to its unlock, and with status CRITICAL.
FailureInIteration ==
  \E k \in 1 .. Len(calls) :
    Current(k) /\ calls[k].op \in PrimaryOps \cup {"resolve"} /\ calls[k].result = "raise"

C4_FailureDoesNotAbortRun ==
  (Ended /\ (FailureInIteration \/ worstOutcome = CRITICAL)) =>
    (LoopDone /\ AllUnlockedOnce /\ exitStatus = CRITICAL)

\* ---- C5 ---------------------------------------------------------------------------
\* C5: for action check, when the structural check of the last repository failed, or
\* its oldest snapshot is older than max_age days, or its newest one older than
\* min_age days, the run exits with status 2 and prints a CRITICAL line that carries
\* an error detail for that repository.
CheckFailedInIteration ==
  \E k \in 1 .. Len(calls) :
    \/ Current(k) /\ args.action = "check" /\ calls[k].op = "check"
       /\ calls[k].result = "falsy"
    \/ Listed(k) /\ (oldDiff(k) > max_age(k) \/ newDiff(k) > min_age(k))

C5_CheckFailureIsCritical ==
  (LoopDone /\ CheckFailedInIteration) =>
    /\ exitStatus = CRITICAL
    /\ printed.prefix = "CRITICAL"
    /\ Len(printed.message) = idx
    /\ printed.message[idx].repo = reposToProcess[idx]
    /\ printed.message[idx].text # ""

\* ---- C6 ---------------------------------------------------------------------------
\* C6: when the oldest snapshot is older than max_age days, the age evaluation
\* completes and the error detail kept for the repository is the oldest-snapshot one,
\* whatever the age of the newest snapshot.
C6_OldestDetailRetained ==
  \A k \in 1 .. Len(calls) :
    (Listed(k) /\ oldDiff(k) > max_age(k)) =>
      /\ pc # "crashed"
      /\ Len(errorMessageAccumulated) >= idx
      /\ errorMessageAccumulated[idx].text = "Oldest snapshot is old"

\* ---- C7 ---------------------------------------------------------------------------
\* C7: when the oldest snapshot is within max_age days and the newest within min_age
\* days, the evaluation ends normally with an empty error detail and the success text
\* 'is healthy', and the script goes on to the unlock.
C7_HealthyAgesAreOK ==
  \A k \in 1 .. Len(calls) :
    (Listed(k) /\ oldDiff(k) <= max_age(k) /\ newDiff(k) <= min_age(k)) =>
      /\ pc # "crashed"
      /\ Len(errorMessageAccumulated) >= idx
      /\ errorMessageAccumulated[idx].text = ""
      /\ successMessageAccumulated[idx].text = "is healthy"

\* ---- C8 ---------------------------------------------------------------------------
\* C8: when the engine's snapshot list is empty during an age check, the run does not
\* crash: the repository gets an error detail and the script goes on to its unlock.
EmptyListInIteration ==
  \E k \in 1 .. Len(calls) :
    /\ Current(k) /\ args.action = "check" /\ calls[k].op = "snapshots"
    /\ calls[k].result = "ok" /\ Len(calls[k].data) = 0

C8_EmptySnapshotListIsCritical ==
  EmptyListInIteration =>
    /\ pc # "crashed"
    /\ Len(errorMessageAccumulated) >= idx
    /\ errorMessageAccumulated[idx].text # ""
    /\ Ended => (AllUnlockedOnce /\ exitStatus = CRITICAL)

\* ---- C9 ---------------------------------------------------------------------------
\* The iterations whose primary action has completed (line 313 reached).
Completed ==
  IF idx >= 1 /\ pc \in {"credentials", "action", "crashed"} THEN idx - 1 ELSE idx

\* C9: with all repositories as the target the processing order is the declared
\* order; the accumulated success message holds exactly one fragment per repository
\* whose primary action completed, in processing order, whatever the Outcomes; after
\* a run that processed N repositories it holds N fragments.
C9_OneFragmentPerRepository ==
  /\ (args.repo = ALL_REPOS /\ pc \notin {"check_repo", "self_update", "build"} /\ ~Ended)
       => reposToProcess = [i \in 1 .. Len(repos) |-> i]
  /\ Len(successMessageAccumulated) = Completed
  /\ \A i \in 1 .. Len(successMessageAccumulated) :
       successMessageAccumulated[i].repo = reposToProcess[i]
  /\ LoopDone => Len(successMessageAccumulated) = Len(reposToProcess)

\* A run on all repositories of a full configuration ended with a fragment for each of
\* them although an Outcome was CRITICAL.
C9_Witness ==
  /\ LoopDone /\ args.repo = ALL_REPOS /\ Len(repos) = 3
  /\ Len(successMessageAccumulated) = 3
  /\ worstOutcome = CRITICAL

\* ---- C10 --------------------------------------------------------------------------
\* C10: for action run, once the credentials of a duplicate whose source is not in the
\* configuration have been handled, the run has failed with status 2 and a CRITICAL
\* line, and no engine operation has been invoked for that repository.
SourceAbsent ==
  /\ idx >= 1 /\ pc # "credentials" /\ args.action = "run"
  /\ repos[reposToProcess[idx]].duplicate \notin RepoNames \cup {NoDuplicate}

C10_AbsentSourceIsConfigError ==
  SourceAbsent =>
    /\ pc = "exited" /\ exitStatus = CRITICAL /\ printed.prefix = "CRITICAL"
    /\ \A k \in 1 .. Len(calls) : ~(Current(k) /\ calls[k].op \in EngineOps)

\* ---- C11 --------------------------------------------------------------------------
\* C11: every credential read that succeeded returned, without a secret-store session,
\* exactly the configured key of the repository; with a session, the whole secret data
\* for a b2: location and only the password field of the secret otherwise.
C11_CredentialResolution ==
  \A k \in 1 .. Len(calls) :
    (calls[k].op = "resolve" /\ calls[k].result = "ok") =>
      LET r == repos[calls[k].repo]
          got == calls[k].data[1]
      IN  IF ~args.vault
            THEN got = r.key.inline
            ELSE IF r.location.scheme = "b2:"
              THEN /\ ~got.scalar
                   /\ got.data = [keyID |-> KeyID(r.key.path),
                                  applicationKey |-> ApplicationKey(r.key.path),
                                  password |-> Password(r.key.path)]
              ELSE got.scalar /\ got.value = Password(r.key.path)

\* With a session, the secret of a b2: repository was read and came back whole.
C11_Witness ==
  /\ args.vault
  /\ \E k \in 1 .. Len(calls) :
       /\ calls[k].op = "resolve" /\ calls[k].result = "ok"
       /\ repos[calls[k].repo].location.scheme = "b2:"
       /\ ~calls[k].data[1].scalar
       /\ calls[k].data[1].data.keyID = KeyID(calls[k].repo)

\* The run came to its exit through end_script: not through line 146 and not through
\* line 154.
EndedByEndScript ==
  /\ pc = "exited"
  /\ args.repo \in RepoNames \cup {ALL_REPOS}
  /\ \A k \in 1 .. Len(calls) : ~(calls[k].op = "self_update" /\ calls[k].result = "raise")

OpsOfAction(action) ==
  CASE action = "create" -> {"init"}
    [] action = "prune"  -> {"forget"}
    [] action = "check"  -> {"check", "snapshots"}
    [] action = "list"   -> {"snapshots"}
    [] action = "run"    -> {"copy", "backup"}

\* C13: the primary engine calls made for a repository are those of the requested
\* action's sequence and of no other; for create that is init without backup or copy,
\* and the success text recorded for the repository is the "successfully created" one.
C13_ExactlyOneOperationSequence ==
  /\ \A k \in 1 .. Len(calls) :
       calls[k].op \in PrimaryOps => calls[k].op \in OpsOfAction(args.action)
  /\ (args.action = "create" /\ pc = "unlock") =>
       /\ \E k \in 1 .. Len(calls) : Current(k) /\ calls[k].op = "init"
       /\ successMessageAccumulated[idx].text = "Repository successfully created at location"

\* ---- C14 --------------------------------------------------------------------------
\* C14: at every engine call made for a repository, the unlock included, the location
\* in restic.repository and the password in RESTIC_PASSWORD are those of one and the
\* same repository.
C14_LocationAndPasswordOfSameRepository ==
  \A k \in 1 .. Len(calls) :
    calls[k].op \in PrimaryOps \cup {"unlock"} =>
      calls[k].env.RESTIC_PASSWORD = Password(calls[k].repository.id)

\* ---- C15 --------------------------------------------------------------------------
\* The repositories whose credentials an engine call for repo may use: repo itself
\* and, for a duplicate target, its source.
UsedBy(repo) == {repo} \cup {repos[repo].duplicate}

\* C15: at every engine call made for a repository, each credential variable of the
\* environment is either unset or holds a value of that repository or of its source;
\* none holds what an earlier, different repository left behind.
C15_NoCredentialOfAnotherRepository ==
  \A k \in 1 .. Len(calls) :
    calls[k].op \in PrimaryOps \cup {"unlock"} =>
      \A var \in DOMAIN calls[k].env :
        \/ calls[k].env[var] = Unset
        \/ calls[k].env[var][2] \in UsedBy(calls[k].repo)

\* ---- C16 --------------------------------------------------------------------------
\* C16: at every call of the primary action for a duplicate target, under action run
\* RESTIC_PASSWORD holds the source's password and RESTIC_PASSWORD2 the target's; under
\* create, check, list and prune RESTIC_PASSWORD holds the target's own password and
\* RESTIC_PASSWORD2 the source's.
C16_PasswordRolesOfDuplicateTarget ==
  \A k \in 1 .. Len(calls) :
    (calls[k].op \in PrimaryOps /\ repos[calls[k].repo].duplicate # NoDuplicate) =>
      LET target == calls[k].repo
          source == repos[target].duplicate
      IN  IF args.action = "run"
            THEN /\ calls[k].op = "copy"
                 /\ calls[k].env.RESTIC_PASSWORD = Password(source)
                 /\ calls[k].env.RESTIC_PASSWORD2 = Password(target)
            ELSE /\ calls[k].env.RESTIC_PASSWORD = Password(target)
                 /\ calls[k].env.RESTIC_PASSWORD2 = Password(source)

\* The copy of a run was made with the source's password first, the target's second.
C16_Witness ==
  /\ args.action = "run"
  /\ \E k \in 1 .. Len(calls) :
       /\ calls[k].op = "copy" /\ calls[k].result = "ok"
       /\ repos[calls[k].repo].duplicate \in RepoNames \ {calls[k].repo}
       /\ calls[k].env.RESTIC_PASSWORD = Password(repos[calls[k].repo].duplicate)
       /\ calls[k].env.RESTIC_PASSWORD2 = Password(calls[k].repo)

\* ---- C17 --------------------------------------------------------------------------
\* C17: under action check, a restic.check that raised or returned a falsy value is
\* followed by no restic.snapshots call for that repository and by no age text, age
\* checking requested or not; a restic.check that succeeded is, when age checking was
\* requested, followed at once by the restic.snapshots call, which comes before the
\* unlock; and no snapshots call is made without both.
C17_AgeCheckOnlyAfterSuccessfulCheck ==
  args.action = "check" =>
    \A k \in 1 .. Len(calls) :
      /\ (calls[k].op = "check" /\ calls[k].result # "ok") =>
           /\ \A j \in 1 .. Len(calls) : calls[j].op # "snapshots"
           /\ pc = "unlock" =>
                errorMessageAccumulated[idx].text = "Error checking repository"
      /\ (calls[k].op = "check" /\ calls[k].result = "ok" /\ args.age) =>
           /\ k + 1 <= Len(calls)
           /\ calls[k + 1].op = "snapshots"
           /\ calls[k + 1].repo = calls[k].repo
      /\ calls[k].op = "snapshots" =>
           /\ args.age
           /\ k >= 2 /\ calls[k - 1].op = "check" /\ calls[k - 1].result = "ok"
      /\ calls[k].op = "unlock" =>
           \A j \in 1 .. Len(calls) : calls[j].op \in {"check", "snapshots"} => j < k

\* With age checking requested, the check of a repository returned a falsy value and
\* the primary action ended without a snapshots call.
C17_Witness ==
  /\ args.action = "check" /\ args.age
  /\ pc = "unlock"
  /\ \E k \in 1 .. Len(calls) : Current(k) /\ calls[k].op = "check" /\ calls[k].result = "falsy"
  /\ \A k \in 1 .. Len(calls) : calls[k].op # "snapshots"

\* With age checking requested: check, snapshots and unlock were called in that order.
C17_ListedBeforeUnlock ==
  /\ args.action = "check" /\ args.age
  /\ \E k \in 1 .. Len(calls) :
       /\ calls[k].op = "check" /\ calls[k].result = "ok"
       /\ k + 2 <= Len(calls)
       /\ calls[k + 1].op = "snapshots" /\ calls[k + 2].op = "unlock"

\* ---- C18 --------------------------------------------------------------------------
\* The place of a step within the processing of one repository.
StepRank(op) ==
  IF op = "resolve" THEN 1 ELSE IF op \in PrimaryOps THEN 2 ELSE 3

\* The steps recorded for a repository of the loop.
LoopSteps == {k \in 1 .. Len(calls) : calls[k].op # "self_update"}

\* C18: every repository before the one the loop is at has had its unlock attempt and
\* no repository after it has had any step; the steps on record all belong to one
\* repository, the one the loop is at or, between its unlock and the next credential
\* resolution, the one just left; and within it the credential reads come first, then
\* the calls of the primary action, then the one unlock.
C18_StrictlySequential ==
  /\ \A p \in 1 .. Len(unlockCount) :
       /\ p < idx => unlockCount[p] = 1
       /\ p > idx => unlockCount[p] = 0
  /\ LoopSteps # {} =>
       LET last == calls[Len(calls)]
           unlocked == last.op = "unlock"
       IN  /\ last.pos >= 1
           /\ last.pos = idx \/ (last.pos = idx - 1 /\ pc = "credentials" /\ unlocked)
           /\ unlockCount[last.pos] = IF unlocked THEN 1 ELSE 0
           /\ calls[1].op = "resolve"
           /\ StepRank(last.op) >= 2 => calls[1].result = "ok" /\ calls[1].repo = last.repo
           /\ \A k \in 1 .. Len(calls) - 1 :
                /\ calls[k].pos = last.pos
                /\ calls[k].op # "unlock"
                /\ StepRank(calls[k].op) <= StepRank(calls[k + 1].op)
                /\ calls[k].op # "resolve" => calls[k].repo = reposToProcess[last.pos]
           /\ last.op # "resolve" => last.repo = reposToProcess[last.pos]
           /\ unlocked => Len(calls) >= 3 /\ calls[Len(calls) - 1].op \in PrimaryOps
  /\ (LoopSteps = {} /\ idx >= 1) => unlockCount[idx] = 0

\* The second repository has had its credentials resolved and its primary action run
\* and awaits its unlock; the first has been unlocked and the third not been touched.
C18_Witness ==
  /\ Len(reposToProcess) = 3 /\ idx = 2 /\ pc = "unlock"
  /\ unlockCount = <<1, 0, 0>>
  /\ \E k \in LoopSteps : calls[k].op = "resolve" /\ calls[k].pos = 2
  /\ \E k \in LoopSteps : calls[k].op \in PrimaryOps /\ calls[k].pos = 2

\* ---- C19 --------------------------------------------------------------------------
\* The repository asked for is neither configured nor the default for all of them.
UnknownRepo == args.repo \notin RepoNames \cup {ALL_REPOS}

\* C19: a run asked for an unknown repository is, once past its first test, at its
\* exit with status 2, having made no engine call (no self-update, no primary action,
\* no unlock), read no credential, written none to the environment and entered no
\* repository into the list to process.
C19_UnknownRepositoryExits2 ==
  (UnknownRepo /\ pc # "check_repo") =>
    /\ pc = "exited" /\ exitStatus = 2
    /\ calls = <<>>
    /\ env = EmptyEnv
    /\ reposToProcess = <<>> /\ idx = 0 /\ unlockCount = <<>>
    /\ resticRepository = NoLocation

\* Such a run, with repositories configured and self-update-first requested, ended.
C19_Witness ==
  /\ UnknownRepo /\ args.selfUpdate /\ Len(repos) > 0
  /\ pc = "exited" /\ exitStatus = 2
  /\ printed.prefix = "Repository absent"

\* ---- C20 --------------------------------------------------------------------------
\* C20: with self-update-first requested, nothing has been resolved, called or written
\* to the environment before the self-update call, and the call is on record, first and
\* alone, when the list of repositories is about to be built; if the call failed the
\* run is at its exit with status 2, with no repository in the list to process, no
\* credential in the environment and no unlock made.
C20_SelfUpdateFirst ==
  args.selfUpdate =>
    /\ pc \in {"check_repo", "self_update"} =>
         calls = <<>> /\ env = EmptyEnv /\ idx = 0 /\ reposToProcess = <<>>
    /\ pc = "build" =>
         /\ Len(calls) = 1 /\ calls[1].op = "self_update" /\ calls[1].result = "ok"
         /\ env = EmptyEnv /\ idx = 0
    /\ \A k \in 1 .. Len(calls) :
         /\ calls[k].op = "self_update" => k = 1 /\ Len(calls) = 1
         /\ (calls[k].op = "self_update" /\ calls[k].result = "raise") =>
              /\ pc = "exited" /\ exitStatus = 2
              /\ reposToProcess = <<>> /\ idx = 0
              /\ unlockCount = <<>> /\ ~unlockFailed
              /\ env = EmptyEnv
              /\ successMessageAccumulated = <<>> /\ errorMessageAccumulated = <<>>

\* The self-update of a run over configured repositories failed and the run ended.
C20_Witness ==
  /\ args.selfUpdate /\ args.repo = ALL_REPOS /\ Len(repos) > 0
  /\ Len(calls) = 1 /\ calls[1].op = "self_update" /\ calls[1].result = "raise"
  /\ pc = "exited" /\ exitStatus = 2 /\ printed.prefix = "CRITICAL"

====
